---- MODULE Spec2Model ----
(***************************************************************************)
(* BlipCaption (lavis/models/blip_models/blip_caption.py): an image        *)
(* captioning wrapper over a visual encoder, a text decoder and a          *)
(* tokenizer.  The model follows one model object through                  *)
(* _build_from_cfg and then through calls of forward_encoder,              *)
(* forward_decoder, forward and generate; default_config_path is a class   *)
(* method and can be called with or without a model.                       *)
(*                                                                         *)
(* Text is a sequence of one-character strings.  Every call a method makes *)
(* to a collaborator (encoder, decoder, builders, loader, constructor) is  *)
(* appended to `calls` with its arguments and what it returned.            *)
(***************************************************************************)
EXTENDS Integers, Sequences, FiniteSets, TLC

VARIABLES pc, op, args, self, calls, image_embeds, result

vars == <<pc, op, args, self, calls, image_embeds, result>>

\* ---------------------------------------------------------------- bounds

\* largest number of images (and captions) in one batch of samples
MaxBatch == 2
\* largest number of characters of a raw caption
MaxCapLen == 2
\* largest number of tokens the decoder generates after the prompt
MaxNew == 1

\* ------------------------------------------------------------- constants

\* the ignore index of the loss (masked_fill(..., -100))
IGNORE == -100
\* max_txt_len when the caller or the cfg gives none
DefaultMaxTxtLen == 40

\* the tokenizer's special ids (bert-base-uncased with [DEC] added as bos)
pad_token_id == 0
cls_token_id == 101
sep_token_id == 102
bos_token_id == 30522
\* word pieces: "a", "b" at the start of a word, "##a", "##b" inside one
TokA == 1037
TokB == 1038
TokHA == 2050
TokHB == 2497

\* Python values: None, and a string as the sequence of its characters
PyNone == [py |-> "None"]
PyStr(chars) == [str |-> chars]

\* an argument the caller leaves out
Omitted == "<omitted>"

NoModel == [model |-> "none"]
NoArgs == [args |-> "none"]
NoResult == [result |-> "none"]
NoEmbeds == [embeds |-> "none"]
Raised == [raise |-> TRUE]
Returned(v) == [value |-> v]

\* ------------------------------------------------------------- sequences

Min(a, b) == IF a < b THEN a ELSE b
Max(a, b) == IF a > b THEN a ELSE b

RECURSIVE Tuples(_, _)
\* all sequences of length n over S
Tuples(S, n) ==
    IF n = 0 THEN {<<>>}
    ELSE {Append(t, x) : t \in Tuples(S, n - 1), x \in S}

TuplesUpTo(S, n) == UNION {Tuples(S, k) : k \in 0..n}

\* Python s[k:]
PySliceFrom(s, k) ==
    LET start == IF k < 0 THEN Max(Len(s) + k, 0) ELSE Min(k, Len(s))
    IN  [i \in 1..(Len(s) - start) |-> s[start + i]]

\* Python s[:k]
PySliceTo(s, k) ==
    LET stop == IF k < 0 THEN Max(Len(s) + k, 0) ELSE Min(k, Len(s))
    IN  [i \in 1..stop |-> s[i]]

\* --------------------------------------------------------------- tokenizer

SpecialIds == {pad_token_id, cls_token_id, sep_token_id, bos_token_id}

PieceId(c, inWord) ==
    CASE c = "a" /\ ~inWord -> TokA
      [] c = "a" /\ inWord -> TokHA
      [] c = "b" /\ ~inWord -> TokB
      [] OTHER -> TokHB

RECURSIVE Pieces(_, _)
\* the word pieces of a text: blanks separate words
Pieces(s, inWord) ==
    IF s = <<>> THEN <<>>
    ELSE IF Head(s) = " " THEN Pieces(Tail(s), FALSE)
    ELSE <<PieceId(Head(s), inWord)>> \o Pieces(Tail(s), TRUE)

\* tokenizer(text).input_ids of one text: [CLS] pieces [SEP]
Encode(text) ==
    <<cls_token_id>> \o Pieces(text, FALSE) \o <<sep_token_id>>

\* the same with truncation=True, max_length=max_length: at most max_length
\* ids, the special ones included
EncodeTruncated(text, max_length) ==
    <<cls_token_id>> \o PySliceTo(Pieces(text, FALSE), Max(max_length - 2, 0))
        \o <<sep_token_id>>

\* the tokenizer takes text only: tokenizer(None) raises
TokenizerAccepts(text) == text # PyNone

RECURSIVE MaxLen(_)
MaxLen(rows) ==
    IF rows = <<>> THEN 0 ELSE Max(Len(Head(rows)), MaxLen(Tail(rows)))

PadTo(row, n) == [j \in 1..n |-> IF j <= Len(row) THEN row[j] ELSE pad_token_id]

\* tokenizer(texts, padding="longest", truncation=True, max_length=..)
TokenizeBatch(texts, max_length) ==
    LET rows == [i \in 1..Len(texts) |-> EncodeTruncated(texts[i], max_length)]
        width == MaxLen(rows)
    IN  [input_ids |-> [i \in 1..Len(rows) |-> PadTo(rows[i], width)],
         attention_mask |->
             [i \in 1..Len(rows) |->
                 [j \in 1..width |-> IF j <= Len(rows[i]) THEN 1 ELSE 0]]]

Letter(t) == IF t \in {TokA, TokHA} THEN "a" ELSE "b"
IsContinuation(t) == t \in {TokHA, TokHB}

RECURSIVE JoinPieces(_, _)
\* " ".join(tokens).replace(" ##", "")
JoinPieces(toks, first) ==
    IF toks = <<>> THEN <<>>
    ELSE LET t == Head(toks)
             piece == IF IsContinuation(t)
                      THEN (IF first THEN <<"#", "#", Letter(t)>>
                            ELSE <<Letter(t)>>)
                      ELSE (IF first THEN <<Letter(t)>>
                            ELSE <<" ", Letter(t)>>)
         IN  piece \o JoinPieces(Tail(toks), FALSE)

\* tokenizer.decode(ids, skip_special_tokens=True)
Decode(ids) == JoinPieces(SelectSeq(ids, LAMBDA t : t \notin SpecialIds), TRUE)

\* ------------------------------------------------------------ BlipCaption

\* the fields with prompt_length counting every token id of the prompt
ConstructFieldsNoMinusOne(prompt, max_txt_len) ==
    [visual_encoder |-> "image_encoder",
     text_decoder |-> "text_decoder",
     prompt |-> prompt,
     prompt_length |-> Len(Encode(prompt.str)),
     max_txt_len |-> max_txt_len]

\* __init__: the fields of a new model
ConstructFields(prompt, max_txt_len) ==
    [visual_encoder |-> "image_encoder",
     text_decoder |-> "text_decoder",
     prompt |-> prompt,
     prompt_length |-> Len(Encode(prompt.str)) - 1,
     max_txt_len |-> max_txt_len]

BasePath == "configs/models/blip_caption_base.yaml"
LargePath == "configs/models/blip_caption_large.yaml"
AssertionError == "AssertionError"

\* a lookup that falls back to the base path instead of asserting
default_config_path_fallback(model_type) ==
    IF model_type = "large" THEN LargePath ELSE BasePath

\* default_config_path(model_type="base"): the path, or AssertionError
default_config_path(model_type) ==
    LET mt == IF model_type = Omitted THEN "base" ELSE model_type
        paths == [base |-> BasePath, large |-> LargePath]
    IN  IF mt \in DOMAIN paths THEN paths[mt] ELSE AssertionError

\* text.input_ids[:, 0] = bos_token_id
SetFirstColumn(ids, v) ==
    [i \in 1..Len(ids) |-> [j \in 1..Len(ids[i]) |-> IF j = 1 THEN v ELSE ids[i][j]]]

\* targets that mask the prompt prefix and leave the padding in
DecoderTargetsNoPadFill(ids, prompt_length) ==
    [i \in 1..Len(ids) |->
        [j \in 1..Len(ids[i]) |->
            IF j <= prompt_length THEN IGNORE ELSE ids[i][j]]]

\* input_ids.masked_fill(input_ids == pad_token_id, -100), then
\* decoder_targets[:, :prompt_length] = -100
DecoderTargets(ids, prompt_length) ==
    LET filled == [i \in 1..Len(ids) |->
                      [j \in 1..Len(ids[i]) |->
                          IF ids[i][j] = pad_token_id THEN IGNORE ELSE ids[i][j]]]
    IN  [i \in 1..Len(filled) |->
            LET stop == Len(PySliceTo(filled[i], prompt_length))
            IN  [j \in 1..Len(filled[i]) |->
                    IF j <= stop THEN IGNORE ELSE filled[i][j]]]

\* a mapping that keeps the loss only
ResultMappingLossOnly(decoder_output) ==
    [k \in {"loss"} |-> decoder_output[k]]

\* {k: decoder_output[k] for k in decoder_output}
ResultMapping(decoder_output) ==
    [k \in DOMAIN decoder_output |-> decoder_output[k]]

\* the prompt taken once, whatever the batch size
ReplicatePromptOnce(prompt, n) == <<prompt>>

\* [self.prompt] * image_embeds.size(0)
ReplicatePrompt(prompt, n) == [i \in 1..n |-> prompt]

\* the tokenized prompt with its last token kept
TokenizedPromptKeepLast(prompts) ==
    LET rows == [i \in 1..Len(prompts) |-> Encode(prompts[i].str)]
    IN  [input_ids |-> SetFirstColumn(rows, bos_token_id),
         attention_mask |->
             [i \in 1..Len(rows) |-> [j \in 1..Len(rows[i]) |-> 1]]]

\* tokenizer(prompts, return_tensors="pt"); input_ids[:, 0] = bos;
\* input_ids = input_ids[:, :-1] (the attention mask keeps its width)
TokenizedPrompt(prompts) ==
    LET rows == [i \in 1..Len(prompts) |-> Encode(prompts[i].str)]
        ids == SetFirstColumn(rows, bos_token_id)
    IN  [input_ids |-> [i \in 1..Len(ids) |-> PySliceTo(ids[i], -1)],
         attention_mask |->
             [i \in 1..Len(rows) |-> [j \in 1..Len(rows[i]) |-> 1]]]

\* one character too many is cut
StripPromptOffByOne(caption, prompt) == PySliceFrom(caption, Len(prompt.str) + 1)

\* the prompt is cut only where the caption starts with it
StripPromptIfPrefix(caption, prompt) ==
    IF Len(prompt.str) <= Len(caption)
       /\ SubSeq(caption, 1, Len(prompt.str)) = prompt.str
    THEN PySliceFrom(caption, Len(prompt.str))
    ELSE caption

\* caption[len(self.prompt):]
StripPrompt(caption, prompt) == PySliceFrom(caption, Len(prompt.str))

\* the loop over decoder_out: decode each output, strip, append
Captions(decoder_out, prompt) ==
    [i \in 1..Len(decoder_out) |-> StripPrompt(Decode(decoder_out[i]), prompt)]

\* cfg.get(key, default)
CfgGet(cfg, key, default) == IF key \in DOMAIN cfg THEN cfg[key] ELSE default

\* the weights are loaded whatever cfg says
LoadAlways(pretrain_path) == TRUE

\* if pretrain_path is not None
LoadRequested(pretrain_path) == pretrain_path # PyNone

\* ----------------------------------------------------------- collaborators

\* the visual encoder: one embedding row per image of the batch
VisualEncoder(image) == [size |-> image.batch, of |-> image]

\* what text_decoder.forward_loss can return as its second component
DecoderOutputs ==
    {[loss |-> "loss"], [loss |-> "loss", intermediate_output |-> "logits"]}

\* the word pieces the decoder can generate
GenTokens == {TokA, TokHA, TokB}

\* one generated sequence: the prompt ids, then new tokens, then possibly
\* the separator that ends generation
Continuations(prompt_ids) ==
    {prompt_ids \o new \o tail :
        new \in TuplesUpTo(GenTokens, MaxNew), tail \in {<<>>, <<sep_token_id>>}}

RECURSIVE GeneratedBatches(_, _)
\* what text_decoder.generate_from_encoder can return: one sequence per row
\* of the tokenized prompt
GeneratedBatches(input_ids, i) ==
    IF i > Len(input_ids) THEN {<<>>}
    ELSE {<<r>> \o rest : r \in Continuations(input_ids[i]),
                          rest \in GeneratedBatches(input_ids, i + 1)}

\* ------------------------------------------------------------------ inputs

Prompts == {<<>>, <<"a">>, <<"a", " ">>, <<"a", "b">>}
CaptionTexts == TuplesUpTo({"a", " "}, MaxCapLen)
ModelTypes == {Omitted, "base", "large", "huge", ""}

Empty == [k \in {} |-> PyNone]
Cfgs ==
    {p @@ m @@ r :
        p \in {Empty} \cup {"prompt" :> PyStr(t) : t \in Prompts},
        m \in {Empty, "max_txt_len" :> 3},
        r \in {Empty, "pretrained" :> PyNone,
               "pretrained" :> [path |-> "blip_caption.pth"]}}

Images == {[batch |-> n] : n \in 1..MaxBatch}
TrainSamples ==
    UNION {{[image |-> [batch |-> n], text_input |-> t] :
               t \in Tuples(CaptionTexts, n)} : n \in 1..MaxBatch}
ImageSamples == {[image |-> im] : im \in Images}

\* the defaults of generate's keyword arguments
GenerateDefaults ==
    [use_nucleus_sampling |-> FALSE, num_beams |-> 3, max_length |-> 30,
     min_length |-> 10, top_p |-> "0.9", repetition_penalty |-> "1.0"]
\* the keyword arguments a caller gives
GivenOptions ==
    {Empty,
     [use_nucleus_sampling |-> TRUE, num_beams |-> 1, max_length |-> 20,
      min_length |-> 5, top_p |-> "0.95", repetition_penalty |-> "1.5"]}

\* ----------------------------------------------------------------- actions

Init ==
    /\ pc = "start"
    /\ op = "none"
    /\ args = NoArgs
    /\ self = NoModel
    /\ calls = <<>>
    /\ image_embeds = NoEmbeds
    /\ result = NoResult

Call(name, a, r) == [name |-> name, args |-> a, ret |-> r]

\* BlipCaption.default_config_path(model_type)
DefaultConfigPath ==
    /\ pc \in {"start", "ready"}
    /\ \E mt \in ModelTypes :
          /\ op' = "default_config_path"
          /\ args' = [model_type |-> mt]
          /\ IF default_config_path(mt) = AssertionError
             THEN pc' = "raised" /\ result' = NoResult
             ELSE pc' = "returned" /\ result' = [path |-> default_config_path(mt)]
    /\ UNCHANGED <<self, calls, image_embeds>>

\* BlipCaption._build_from_cfg(cfg) is called
BuildFromCfg ==
    /\ pc = "start"
    /\ \E cfg \in Cfgs : args' = cfg
    /\ op' = "_build_from_cfg"
    /\ pc' = "b_enc"
    /\ UNCHANGED <<self, calls, image_embeds, result>>

\* image_encoder = VisionTransformerEncoder.build_from_cfg(cfg)
BuildEncoder ==
    /\ pc = "b_enc"
    /\ \/ /\ calls' = Append(calls, Call("VisionTransformerEncoder.build_from_cfg",
                                         args, Returned("image_encoder")))
          /\ pc' = "b_dec"
       \/ /\ calls' = Append(calls, Call("VisionTransformerEncoder.build_from_cfg",
                                         args, Raised))
          /\ pc' = "raised"
    /\ UNCHANGED <<op, args, self, image_embeds, result>>

\* text_decoder = XBertLMHeadDecoder.build_from_cfg(cfg)
BuildDecoder ==
    /\ pc = "b_dec"
    /\ \/ /\ calls' = Append(calls, Call("XBertLMHeadDecoder.build_from_cfg",
                                         args, Returned("text_decoder")))
          /\ pc' = "b_ctor"
       \/ /\ calls' = Append(calls, Call("XBertLMHeadDecoder.build_from_cfg",
                                         args, Raised))
          /\ pc' = "raised"
    /\ UNCHANGED <<op, args, self, image_embeds, result>>

\* prompt and max_txt_len are read from cfg and the model is constructed;
\* __init__ raises when the tokenizer is given no text
Construct ==
    /\ pc = "b_ctor"
    /\ LET prompt == CfgGet(args, "prompt", PyNone)
           max_txt_len == CfgGet(args, "max_txt_len", DefaultMaxTxtLen)
           a == [image_encoder |-> "image_encoder", text_decoder |-> "text_decoder",
                 prompt |-> prompt, max_txt_len |-> max_txt_len]
       IN  IF TokenizerAccepts(prompt)
           THEN /\ self' = ConstructFields(prompt, max_txt_len)
                /\ calls' = Append(calls, Call("BlipCaption", a, Returned("model")))
                /\ pc' = "b_load"
           ELSE /\ self' = self
                /\ calls' = Append(calls, Call("BlipCaption", a, Raised))
                /\ pc' = "raised"
    /\ UNCHANGED <<op, args, image_embeds, result>>

\* the pretrained weights are loaded when cfg names them; the model is returned
LoadPretrained ==
    /\ pc = "b_load"
    /\ LET pretrain_path == CfgGet(args, "pretrained", PyNone)
           a == [model |-> "model", url_or_filename |-> pretrain_path]
       IN  IF LoadRequested(pretrain_path)
           THEN \/ /\ calls' = Append(calls, Call("load_from_pretrained", a,
                                                  Returned(<<"loaded model", "msg">>)))
                   /\ result' = [model |-> "loaded model"]
                   /\ pc' = "returned"
                \/ /\ calls' = Append(calls, Call("load_from_pretrained", a, Raised))
                   /\ result' = result
                   /\ pc' = "raised"
           ELSE /\ calls' = calls
                /\ result' = [model |-> "model"]
                /\ pc' = "returned"
    /\ UNCHANGED <<op, args, self, image_embeds>>

\* forward_encoder(samples) is called
CallForwardEncoder ==
    /\ pc = "ready"
    /\ \E samples \in ImageSamples : args' = [samples |-> samples]
    /\ op' = "forward_encoder"
    /\ pc' = "enc"
    /\ UNCHANGED <<self, calls, image_embeds, result>>

\* forward_decoder(samples, image_embeds) is called, with the embeddings of
\* the samples' images
CallForwardDecoder ==
    /\ pc = "ready"
    /\ \E samples \in TrainSamples :
          /\ args' = [samples |-> samples]
          /\ image_embeds' = VisualEncoder(samples.image)
    /\ op' = "forward_decoder"
    /\ pc' = "dec"
    /\ UNCHANGED <<self, calls, result>>

\* forward(samples) is called
CallForward ==
    /\ pc = "ready"
    /\ \E samples \in TrainSamples : args' = [samples |-> samples]
    /\ op' = "forward"
    /\ pc' = "enc"
    /\ UNCHANGED <<self, calls, image_embeds, result>>

\* generate(samples, **options) is called
CallGenerate ==
    /\ pc = "ready"
    /\ \E samples \in ImageSamples, given \in GivenOptions :
          args' = [samples |-> samples, options |-> given @@ GenerateDefaults]
    /\ op' = "generate"
    /\ pc' = "enc"
    /\ UNCHANGED <<self, calls, image_embeds, result>>

\* an encoder step that swallows the encoder's failure and goes on
ForwardEncoderCatching ==
    /\ pc = "enc"
    /\ LET image == args.samples.image
       IN  \/ /\ calls' = Append(calls, Call("visual_encoder", [image |-> image],
                                             Returned(VisualEncoder(image))))
              /\ image_embeds' = VisualEncoder(image)
              /\ IF op = "forward_encoder"
                 THEN pc' = "returned" /\ result' = [embeds |-> VisualEncoder(image)]
                 ELSE pc' = (IF op = "forward" THEN "dec" ELSE "gen")
                      /\ result' = result
           \/ /\ calls' = Append(calls, Call("visual_encoder", [image |-> image], Raised))
              /\ image_embeds' = [size |-> 0, of |-> image]
              /\ IF op = "forward_encoder"
                 THEN pc' = "returned" /\ result' = [embeds |-> NoEmbeds]
                 ELSE pc' = (IF op = "forward" THEN "dec" ELSE "gen")
                      /\ result' = result
    /\ UNCHANGED <<op, args, self>>

\* forward_encoder: image_embeds = self.visual_encoder(samples["image"])
ForwardEncoder ==
    /\ pc = "enc"
    /\ LET image == args.samples.image
       IN  \/ /\ calls' = Append(calls, Call("visual_encoder", [image |-> image],
                                             Returned(VisualEncoder(image))))
              /\ image_embeds' = VisualEncoder(image)
              /\ IF op = "forward_encoder"
                 THEN pc' = "returned" /\ result' = [embeds |-> VisualEncoder(image)]
                 ELSE pc' = (IF op = "forward" THEN "dec" ELSE "gen")
                      /\ result' = result
           \/ /\ calls' = Append(calls, Call("visual_encoder", [image |-> image], Raised))
              /\ pc' = "raised"
              /\ UNCHANGED <<image_embeds, result>>
    /\ UNCHANGED <<op, args, self>>

\* forward_decoder: tokenize the captions, build the targets, call the
\* decoder's forward_loss and return its output as a mapping
ForwardDecoder ==
    /\ pc = "dec"
    /\ LET tokenized == TokenizeBatch(args.samples.text_input, self.max_txt_len)
           text == [tokenized EXCEPT
                       !.input_ids = SetFirstColumn(@, bos_token_id)]
           decoder_targets == DecoderTargets(text.input_ids, self.prompt_length)
           a == [text_tokenized |-> text, visual_embeds |-> image_embeds,
                 decoder_targets |-> decoder_targets]
       IN  \/ \E decoder_output \in DecoderOutputs :
                 /\ calls' = Append(calls, Call("text_decoder.forward_loss", a,
                                                Returned(decoder_output)))
                 /\ result' = [mapping |-> ResultMapping(decoder_output)]
                 /\ pc' = "returned"
           \/ /\ calls' = Append(calls, Call("text_decoder.forward_loss", a, Raised))
              /\ result' = result
              /\ pc' = "raised"
    /\ UNCHANGED <<op, args, self, image_embeds>>

\* generate after the encoder: tokenize the replicated prompt, call the
\* decoder's generate_from_encoder, decode and strip every output
GenerateDecoder ==
    /\ pc = "gen"
    /\ LET prompt == TokenizedPrompt(ReplicatePrompt(self.prompt, image_embeds.size))
           a == [tokenized_prompt |-> prompt, visual_embeds |-> image_embeds,
                 sep_token_id |-> sep_token_id, pad_token_id |-> pad_token_id,
                 options |-> args.options]
       IN  \/ \E decoder_out \in GeneratedBatches(prompt.input_ids, 1) :
                 /\ calls' = Append(calls, Call("text_decoder.generate_from_encoder",
                                                a, Returned(decoder_out)))
                 /\ result' = [captions |-> Captions(decoder_out, self.prompt)]
                 /\ pc' = "returned"
           \/ /\ calls' = Append(calls, Call("text_decoder.generate_from_encoder",
                                             a, Raised))
              /\ result' = result
              /\ pc' = "raised"
    /\ UNCHANGED <<op, args, self, image_embeds>>

\* the call is over: its result or its exception has reached the caller.  A
\* model whose build raised is never handed out.
Return ==
    /\ pc \in {"returned", "raised"}
    /\ LET lost == op = "_build_from_cfg" /\ pc = "raised"
       IN  /\ self' = IF lost THEN NoModel ELSE self
           /\ pc' = IF lost \/ self = NoModel THEN "start" ELSE "ready"
    /\ op' = "none"
    /\ args' = NoArgs
    /\ calls' = <<>>
    /\ image_embeds' = NoEmbeds
    /\ result' = NoResult

Next ==
    \/ DefaultConfigPath
    \/ BuildFromCfg
    \/ BuildEncoder
    \/ BuildDecoder
    \/ Construct
    \/ LoadPretrained
    \/ CallForwardEncoder
    \/ CallForwardDecoder
    \/ CallForward
    \/ CallGenerate
    \/ ForwardEncoder
    \/ ForwardDecoder
    \/ GenerateDecoder
    \/ Return

Spec == Init /\ [][Next]_vars

\* -------------------------------------------------------------- properties

StartsWith(s, p) == Len(p) <= Len(s) /\ SubSeq(s, 1, Len(p)) = p

IsCall(k, name) == k \in 1..Len(calls) /\ calls[k].name = name
CallsTo(names) == {k \in 1..Len(calls) : calls[k].name \in names}

GenerateReturned == op = "generate" /\ pc = "returned"
\* what generate_from_encoder returned in the generate call that has returned
DecoderOut == calls[2].ret.value

\* C1: in forward_decoder, a position of the decoder targets handed to
\* forward_loss is -100 exactly when the input ids (column 0 already set to
\* the bos id) hold the pad id there or its column is below prompt_length;
\* every other position carries the input id unchanged.
C1_TargetsMaskPadAndPrompt ==
    \A k \in CallsTo({"text_decoder.forward_loss"}) :
        LET ids == calls[k].args.text_tokenized.input_ids
            t == calls[k].args.decoder_targets
        IN  /\ Len(t) = Len(ids)
            /\ \A i \in 1..Len(ids) :
                  /\ Len(t[i]) = Len(ids[i])
                  /\ ids[i][1] = bos_token_id
                  /\ \A j \in 1..Len(ids[i]) :
                        /\ t[i][j] = -100 <=>
                              (ids[i][j] = pad_token_id \/ j - 1 < self.prompt_length)
                        /\ t[i][j] # -100 => t[i][j] = ids[i][j]

\* a batch where padding is masked beyond the prompt prefix, one row keeps a
\* target and another row is masked entirely
C1_Witness ==
    \E k \in CallsTo({"text_decoder.forward_loss"}) :
        LET ids == calls[k].args.text_tokenized.input_ids
            t == calls[k].args.decoder_targets
        IN  /\ \E i \in 1..Len(t) : \E j \in 1..Len(t[i]) :
                  j > self.prompt_length /\ ids[i][j] = pad_token_id /\ t[i][j] = -100
            /\ \E i \in 1..Len(t) : \E j \in 1..Len(t[i]) : t[i][j] = ids[i][j]
            /\ \E i \in 1..Len(t) : \A j \in 1..Len(t[i]) : t[i][j] = -100

\* C2 as stated: no string generate returns starts with the prompt P (read for
\* a non-empty P: every string starts with the empty one).
C2_NeverStartsWithPrompt ==
    (GenerateReturned /\ self.prompt.str # <<>>) =>
        \A i \in 1..Len(result.captions) :
            ~StartsWith(result.captions[i], self.prompt.str)

\* C2 as amended: when the decoded text starts with P, the returned string is
\* the decoded text with that one leading occurrence of P removed (P followed
\* by the returned string is the decoded text); it may itself start with P.
C2_StripsOneLeadingPrompt ==
    GenerateReturned =>
        /\ Len(result.captions) = Len(DecoderOut)
        /\ \A i \in 1..Len(DecoderOut) :
              StartsWith(Decode(DecoderOut[i]), self.prompt.str) =>
                  self.prompt.str \o result.captions[i] = Decode(DecoderOut[i])

\* the decoder repeats a non-empty prompt, and the returned string starts with it
C2_Witness ==
    /\ GenerateReturned
    /\ self.prompt.str # <<>>
    /\ \E i \in 1..Len(DecoderOut) :
          /\ StartsWith(Decode(DecoderOut[i]), self.prompt.str)
          /\ StartsWith(result.captions[i], self.prompt.str)

\* C3: generate returns exactly as many strings as the image embeddings have
\* rows (the batch size), whatever sampling options are passed.
C3_GenerateReturnsBatchSizeStrings ==
    GenerateReturned =>
        /\ Len(result.captions) = image_embeds.size
        /\ Len(result.captions) = args.samples.image.batch

C3_Witness ==
    /\ GenerateReturned
    /\ args.options.use_nucleus_sampling
    /\ image_embeds.size = 2
    /\ Len(result.captions) = 2

\* C4: default_config_path returns the fixed path of "base" (also when the
\* argument is left out) and of "large", and for every other model type it
\* fails with an assertion error and returns no path.
C4_DefaultConfigPath ==
    op = "default_config_path" =>
        LET mt == args.model_type
        IN  /\ mt \in {"base", Omitted} =>
                  /\ pc = "returned"
                  /\ result = [path |-> "configs/models/blip_caption_base.yaml"]
            /\ mt = "large" =>
                  /\ pc = "returned"
                  /\ result = [path |-> "configs/models/blip_caption_large.yaml"]
            /\ mt \notin {"base", "large", Omitted} =>
                  /\ pc = "raised"
                  /\ result = NoResult

C4_Witness ==
    /\ op = "default_config_path"
    /\ args.model_type = "huge"
    /\ pc = "raised"

\* C5: once a model is constructed, prompt_length is the number of token ids
\* of the prompt minus 1, and no step of encode, decode_for_loss, forward or
\* generate changes prompt, prompt_length or max_txt_len.
C5_PromptFieldsFixed ==
    [][/\ self' # NoModel =>
              self'.prompt_length = Len(Encode(self'.prompt.str)) - 1
       /\ (self # NoModel /\ self' # NoModel) =>
              /\ self'.prompt = self.prompt
              /\ self'.prompt_length = self.prompt_length
              /\ self'.max_txt_len = self.max_txt_len]_vars

\* a generate call has returned on a model whose prompt has one word
C5_Witness ==
    /\ GenerateReturned
    /\ self # NoModel
    /\ self.prompt_length = 2
    /\ self.max_txt_len = 3

BuildCalls ==
    <<"VisionTransformerEncoder.build_from_cfg", "XBertLMHeadDecoder.build_from_cfg",
      "BlipCaption", "load_from_pretrained">>
CfgNamesWeights == "pretrained" \in DOMAIN args /\ args["pretrained"] # PyNone

C7_ForwardComposes ==
    op = "forward" =>
        /\ Len(calls) <= 2
        /\ IsCall(1, "visual_encoder") => calls[1].args.image = args.samples.image
        /\ IsCall(2, "text_decoder.forward_loss") =>
              /\ IsCall(1, "visual_encoder")
              /\ calls[1].ret # Raised
              /\ calls[2].args.visual_embeds = calls[1].ret.value
        /\ \A k \in 1..Len(calls) :
              calls[k].name = (IF k = 1 THEN "visual_encoder"
                               ELSE "text_decoder.forward_loss")
        /\ pc = "returned" =>
              /\ Len(calls) = 2
              /\ DOMAIN result.mapping = DOMAIN calls[2].ret.value
              /\ \A key \in DOMAIN result.mapping :
                    result.mapping[key] = calls[2].ret.value[key]

C7_Witness ==
    /\ op = "forward"
    /\ pc = "returned"
    /\ Len(calls) = 2
    /\ DOMAIN result.mapping = {"loss", "intermediate_output"}

\* C8: in generate, the prompt input ids handed to generate_from_encoder have
\* one row per batch element, the bos id in column 0 of every row, and are the
\* prompt's tokenization without its last token, so they have prompt_length
\* columns.
C8_PromptIdsForGeneration ==
    \A k \in CallsTo({"text_decoder.generate_from_encoder"}) :
        LET ids == calls[k].args.tokenized_prompt.input_ids
            tok == Encode(self.prompt.str)
        IN  /\ Len(ids) = args.samples.image.batch
            /\ \A i \in 1..Len(ids) :
                  /\ Len(ids[i]) = self.prompt_length
                  /\ ids[i][1] = bos_token_id
                  /\ \A j \in 2..Len(ids[i]) : ids[i][j] = tok[j]
                  /\ Len(ids[i]) = Len(tok) - 1

C8_Witness ==
    \E k \in CallsTo({"text_decoder.generate_from_encoder"}) :
        /\ Len(calls[k].args.tokenized_prompt.input_ids) = 2
        /\ Len(calls[k].args.tokenized_prompt.input_ids[1]) = 2
        /\ self.prompt_length = 2

\* C9: each string generate returns is the decoded text without its first
\* len(prompt) characters; a decoded text no longer than the prompt gives the
\* empty string and no failure, and there is one string per decoded sequence.
C9_SliceNeverFails ==
    op = "generate" =>
        /\ pc = "raised" => calls[Len(calls)].ret = Raised
        /\ pc = "returned" =>
              /\ Len(result.captions) = Len(DecoderOut)
              /\ \A i \in 1..Len(DecoderOut) :
                    LET d == Decode(DecoderOut[i])
                        n == Len(self.prompt.str)
                    IN  IF Len(d) <= n
                        THEN result.captions[i] = <<>>
                        ELSE result.captions[i] = SubSeq(d, n + 1, Len(d))

\* a decoded text shorter than the prompt string
C9_Witness ==
    /\ GenerateReturned
    /\ \E i \in 1..Len(DecoderOut) :
          /\ Len(Decode(DecoderOut[i])) < Len(self.prompt.str)
          /\ result.captions[i] = <<>>

SubModelCalls ==
    {"text_decoder.forward_loss", "text_decoder.generate_from_encoder"}

\* C10: a failure of the visual encoder or of the decoder ends the call with
\* that failure: after an encoder failure the decoder is not invoked, no
\* result is returned and the model's fields are as before; after a decoder
\* failure no result is returned; each sub-model is invoked at most once.
C10_FailuresPropagate ==
    [][op' \in {"forward_encoder", "forward_decoder", "forward", "generate"} =>
          /\ Cardinality({k \in 1..Len(calls') : calls'[k].name = "visual_encoder"}) <= 1
          /\ Cardinality({k \in 1..Len(calls') : calls'[k].name \in SubModelCalls}) <= 1
          /\ \A k \in 1..Len(calls') :
                calls'[k].ret = Raised =>
                    /\ k = Len(calls')
                    /\ pc' = "raised"
                    /\ result' = NoResult
                    /\ self' = self
          /\ pc' = "raised" => calls'[Len(calls')].ret = Raised]_vars

\* generate ended by a failure of the visual encoder
C10_Witness ==
    /\ op = "generate"
    /\ pc = "raised"
    /\ Len(calls) = 1
    /\ calls[1].name = "visual_encoder"
    /\ calls[1].ret = Raised

====
